---- MODULE Spec2Model ----
(***************************************************************************)
(* Record consolidation and schema projection of my-excel-app-backend.     *)
(*                                                                         *)
(* Two revisions of the Student-Guardian processing live in the            *)
(* repository: process_uploaded_spreadsheet ("app v1.py", identical to the *)
(* live half of app.py) and _process_student_parent_info ("app v2.py").    *)
(* The variable ver says which revision an invocation runs.  The Staff     *)
(* processing (_process_faculty_staff_info) exists in "app v2.py" only.    *)
(***************************************************************************)
EXTENDS Integers, Sequences, FiniteSets, TLC

(***************************************************************************)
(* Cell values.  A cell of the decoded sheet is a Python object: a str, a  *)
(* number, a bool, float NaN (what pandas gives for a blank cell) or None. *)
(* Every value is a record of the same shape so that any two compare.      *)
(*   t : the Python type, s : the characters of a str, n : the number.     *)
(***************************************************************************)
NaN == [t |-> "nan", s |-> <<>>, n |-> 0]

None == [t |-> "none", s |-> <<>>, n |-> 0]

Str(chars) == [t |-> "str", s |-> chars, n |-> 0]

Num(k) == [t |-> "num", s |-> <<>>, n |-> k]

Bool(b) == [t |-> "bool", s |-> <<>>, n |-> IF b THEN 1 ELSE 0]

\* pd.notna(v): neither NaN nor None.
NotNa(v) == v.t \notin {"nan", "none"}

IsNull(v) == ~NotNa(v)

\* bool(v), as `if v` evaluates it: NaN is a non-zero float, hence true.
Truthy(v) ==
    CASE v.t = "nan" -> TRUE
      [] v.t = "none" -> FALSE
      [] v.t = "str" -> v.s # <<>>
      [] v.t = "num" -> v.n # 0
      [] v.t = "bool" -> v.n = 1

\* Variant of PyEq: NaN equals NaN.
PyEq_NaNEqual(a, b) ==
    CASE a.t = "nan" \/ b.t = "nan" -> a.t = b.t
      [] a.t = "none" \/ b.t = "none" -> a.t = b.t
      [] a.t = "str" \/ b.t = "str" -> a.t = b.t /\ a.s = b.s
      [] OTHER -> a.n = b.n

\* a == b in Python: NaN equals nothing, itself included; True == 1.
PyEq(a, b) ==
    CASE a.t = "nan" \/ b.t = "nan" -> FALSE
      [] a.t = "none" \/ b.t = "none" -> a.t = b.t
      [] a.t = "str" \/ b.t = "str" -> a.t = b.t /\ a.s = b.s
      [] OTHER -> a.n = b.n

(***************************************************************************)
(* Strings are sequences of one-character strings.                         *)
(***************************************************************************)
Digits == <<"0", "1", "2", "3", "4", "5", "6", "7", "8", "9">>

LowerChar(c) ==
    CASE c = "A" -> "a"
      [] c = "B" -> "b"
      [] c = "C" -> "c"
      [] c = "D" -> "d"
      [] c = "E" -> "e"
      [] c = "F" -> "f"
      [] c = "G" -> "g"
      [] c = "H" -> "h"
      [] c = "I" -> "i"
      [] c = "J" -> "j"
      [] c = "K" -> "k"
      [] c = "L" -> "l"
      [] c = "M" -> "m"
      [] c = "N" -> "n"
      [] c = "O" -> "o"
      [] c = "P" -> "p"
      [] c = "Q" -> "q"
      [] c = "R" -> "r"
      [] c = "S" -> "s"
      [] c = "T" -> "t"
      [] c = "U" -> "u"
      [] c = "V" -> "v"
      [] c = "W" -> "w"
      [] c = "X" -> "x"
      [] c = "Y" -> "y"
      [] c = "Z" -> "z"
      [] OTHER -> c

\* str.lower()
Lower(chars) == [i \in 1..Len(chars) |-> LowerChar(chars[i])]

IsSpace(c) == c \in {" ", "\t"}

RECURSIVE LStrip(_)
LStrip(chars) ==
    IF chars # <<>> /\ IsSpace(Head(chars)) THEN LStrip(Tail(chars)) ELSE chars

RECURSIVE RStrip(_)
RStrip(chars) ==
    IF chars # <<>> /\ IsSpace(chars[Len(chars)])
    THEN RStrip(SubSeq(chars, 1, Len(chars) - 1))
    ELSE chars

\* str.strip()
Strip(chars) == RStrip(LStrip(chars))

\* str(v) for the values a cell can hold.
PyStr(v) ==
    CASE v.t = "str" -> v.s
      [] v.t = "num" -> <<Digits[v.n + 1]>>
      [] v.t = "bool" -> IF v.n = 1 THEN <<"T", "r", "u", "e">>
                                    ELSE <<"F", "a", "l", "s", "e">>
      [] v.t = "nan" -> <<"n", "a", "n">>
      [] v.t = "none" -> <<"N", "o", "n", "e">>

(***************************************************************************)
(* Python dicts keep insertion order: a dict is a sequence of items        *)
(* [k, v] with pairwise different keys.                                    *)
(***************************************************************************)
DictKeys(d) == [i \in 1..Len(d) |-> d[i].k]

DictHas(d, key) == \E i \in 1..Len(d) : d[i].k = key

\* d.get(key): None when the key is missing.
DictGet(d, key) ==
    IF DictHas(d, key)
    THEN d[CHOOSE i \in 1..Len(d) : d[i].k = key].v
    ELSE None

\* Variant of DictSet: a key that is set again moves to the end.
DictSet_MoveToEnd(d, key, value) ==
    Append(SelectSeq(d, LAMBDA item : item.k # key), [k |-> key, v |-> value])

\* d[key] = value: an existing key keeps its position.
DictSet(d, key, value) ==
    IF DictHas(d, key)
    THEN [i \in 1..Len(d) |-> IF d[i].k = key THEN [k |-> key, v |-> value] ELSE d[i]]
    ELSE Append(d, [k |-> key, v |-> value])

\* d.update(e)
RECURSIVE DictUpdate(_, _)
DictUpdate(d, e) ==
    IF e = <<>> THEN d
    ELSE DictUpdate(DictSet(d, Head(e).k, Head(e).v), Tail(e))

\* {k: v for k, v in d.items() if v}
RECURSIVE TruthyItems(_)
TruthyItems(d) ==
    IF d = <<>> THEN <<>>
    ELSE IF Truthy(Head(d).v) THEN <<Head(d)>> \o TruthyItems(Tail(d))
         ELSE TruthyItems(Tail(d))

(***************************************************************************)
(* DataFrames: the column names in order, and one sequence of cells per    *)
(* row, aligned with the columns.                                          *)
(***************************************************************************)
InSeq(x, seq) == \E j \in 1..Len(seq) : seq[j] = x

IndexOf(x, seq) == CHOOSE j \in 1..Len(seq) : seq[j] = x

\* row.get(col) for row number rw of frame: None when there is no such column.
RowGet(frame, rw, col) ==
    IF InSeq(col, frame.columns)
    THEN frame.data[rw][IndexOf(col, frame.columns)]
    ELSE None

\* The keys of a list of dicts, one dict after the other.
RECURSIVE ConcatKeys(_)
ConcatKeys(dicts) ==
    IF dicts = <<>> THEN <<>> ELSE DictKeys(Head(dicts)) \o ConcatKeys(Tail(dicts))

\* seq with each element kept at its first place only.
FirstOccurrences(seq) ==
    LET first == SelectSeq([j \in 1..Len(seq) |-> j],
                           LAMBDA j : \A m \in 1..(j - 1) : seq[m] # seq[j])
    IN [j \in 1..Len(first) |-> seq[first[j]]]

\* The keys of a list of dicts, each once, in order of first appearance.
AllKeys(dicts) == FirstOccurrences(ConcatKeys(dicts))

\* pd.DataFrame(dicts, columns=cols): a key a dict lacks is NaN in its row,
\* a key that is no column is dropped.
DataFrameWithColumns(dicts, cols) ==
    [columns |-> cols,
     data |-> [rw \in 1..Len(dicts) |->
                 [c \in 1..Len(cols) |->
                    IF DictHas(dicts[rw], cols[c])
                    THEN DictGet(dicts[rw], cols[c]) ELSE NaN]]]

\* pd.DataFrame(dicts): the columns are the keys met, in order of appearance.
DataFrame(dicts) == DataFrameWithColumns(dicts, AllKeys(dicts))

(***************************************************************************)
(* Column names.                                                           *)
(***************************************************************************)
\* f'Parent {i} {field}'
ParentCol(i, field) == "Parent " \o ToString(i) \o " " \o field

\* f"{base} Student {i}"
StudentCol(base, i) == base \o " Student " \o ToString(i)

SlotFields == <<"First Name", "Last Name", "Email", "Phone Number",
                "Street Address", "City", "State", "ZIP Code">>

SlotFieldsV1 == <<"First Name", "Last Name", "Email", "Phone Number", "Is FacultyStaff",
                  "Street Address", "City", "State", "ZIP Code">>

expected_cols_v2 ==
    <<"School Name", "ID Number", "Student First Name", "Student Last Name",
      "Student Grade Level", "Student Homeroom">>
    \o [j \in 1..Len(SlotFields) |-> ParentCol(1, SlotFields[j])]
    \o [j \in 1..Len(SlotFields) |-> ParentCol(2, SlotFields[j])]

expected_cols_v1 ==
    <<"School Name", "SLC Name", "ID Number", "Student First Name", "Student Last Name",
      "Student Grade Level", "Student Homeroom">>
    \o [j \in 1..Len(SlotFieldsV1) |-> ParentCol(1, SlotFieldsV1[j])]
    \o [j \in 1..Len(SlotFieldsV1) |-> ParentCol(2, SlotFieldsV1[j])]

staff_expected_cols ==
    <<"School Name", "ID Number", "First Name", "Last Name", "Email", "Phone Number",
      "Street Address", "City", "State", "ZIP Code">>

\* Variant of _validate_columns: only the first missing column is reported.
_validate_columns_FirstOnly(df_columns, expected_cols) ==
    LET missing == SelectSeq(expected_cols, LAMBDA col : ~InSeq(col, df_columns)) IN
    IF missing = <<>> THEN <<>> ELSE <<Head(missing)>>

\* [col for col in expected_cols if col not in df_columns]
_validate_columns(df_columns, expected_cols) ==
    SelectSeq(expected_cols, LAMBDA col : ~InSeq(col, df_columns))

\* ["Missing columns:", *missing_cols, "---", "Available columns:", *list(df.columns)]
error_details(missing_cols, df_columns) ==
    <<"Missing columns:">> \o missing_cols \o <<"---", "Available columns:">> \o df_columns

(***************************************************************************)
(* normalize_boolean ("app v1.py"), used for the 'Is FacultyStaff' cells.  *)
(***************************************************************************)
TrueWords == {<<"t", "r", "u", "e">>, <<"y", "e", "s">>, <<"1">>, <<"t">>, <<"o", "n">>}

FalseWords == {<<"f", "a", "l", "s", "e">>, <<"n", "o">>, <<"0">>, <<"f">>, <<"o", "f", "f">>}

\* Variant of normalize_boolean: the text is not trimmed.
normalize_boolean_NoStrip(value) ==
    CASE value.t = "bool" -> value
      [] value.t \in {"num", "nan"} ->
            IF value.t = "num" /\ value.n = 1 THEN Bool(TRUE)
            ELSE IF value.t = "num" /\ value.n = 0 THEN Bool(FALSE)
            ELSE None
      [] value.t = "str" ->
            IF Lower(value.s) \in TrueWords THEN Bool(TRUE)
            ELSE IF Lower(value.s) \in FalseWords THEN Bool(FALSE)
            ELSE None
      [] OTHER -> None

normalize_boolean(value) ==
    CASE value.t = "bool" -> value
      [] value.t \in {"num", "nan"} ->
            IF value.t = "num" /\ value.n = 1 THEN Bool(TRUE)
            ELSE IF value.t = "num" /\ value.n = 0 THEN Bool(FALSE)
            ELSE None
      [] value.t = "str" ->
            IF Strip(Lower(value.s)) \in TrueWords THEN Bool(TRUE)
            ELSE IF Strip(Lower(value.s)) \in FalseWords THEN Bool(FALSE)
            ELSE None
      [] OTHER -> None

(***************************************************************************)
(* Record consolidation: one guardian slot of one row.                     *)
(***************************************************************************)
max_students == 4

Item(key, value) == [k |-> key, v |-> value]

\* The student of row rw, "app v2.py".
student_info_v2(frame, rw) ==
    <<Item("ID Number", RowGet(frame, rw, "ID Number")),
      Item("First Name", RowGet(frame, rw, "Student First Name")),
      Item("Last Name", RowGet(frame, rw, "Student Last Name")),
      Item("Grade Level", RowGet(frame, rw, "Student Grade Level")),
      Item("Homeroom", RowGet(frame, rw, "Student Homeroom"))>>

input_student_cols ==
    <<"School Name", "SLC Name", "ID Number", "Student First Name", "Student Last Name",
      "Student Grade Level", "Student Homeroom">>

\* The student of row rw, "app v1.py": {col: row.get(col) for col in input_student_cols}
student_info_v1(frame, rw) ==
    [j \in 1..Len(input_student_cols) |->
        Item(input_student_cols[j], RowGet(frame, rw, input_student_cols[j]))]

\* Variant of parent_details_v2: the attributes are always read from slot 1.
parent_details_v2_FirstSlot(frame, rw, i) ==
    <<Item("Firstname", RowGet(frame, rw, ParentCol(1, "First Name"))),
      Item("Lastname", RowGet(frame, rw, ParentCol(1, "Last Name"))),
      Item("SMS", RowGet(frame, rw, ParentCol(1, "Phone Number"))),
      Item("Street Address", RowGet(frame, rw, ParentCol(1, "Street Address"))),
      Item("City", RowGet(frame, rw, ParentCol(1, "City"))),
      Item("State", RowGet(frame, rw, ParentCol(1, "State"))),
      Item("ZIP Code", RowGet(frame, rw, ParentCol(1, "ZIP Code")))>>

\* The guardian attributes of slot i of row rw, "app v2.py".
parent_details_v2(frame, rw, i) ==
    <<Item("Firstname", RowGet(frame, rw, ParentCol(i, "First Name"))),
      Item("Lastname", RowGet(frame, rw, ParentCol(i, "Last Name"))),
      Item("SMS", RowGet(frame, rw, ParentCol(i, "Phone Number"))),
      Item("Street Address", RowGet(frame, rw, ParentCol(i, "Street Address"))),
      Item("City", RowGet(frame, rw, ParentCol(i, "City"))),
      Item("State", RowGet(frame, rw, ParentCol(i, "State"))),
      Item("ZIP Code", RowGet(frame, rw, ParentCol(i, "ZIP Code")))>>

\* The guardian attributes of slot i of row rw, "app v1.py".
parent_details_v1(frame, rw, i) ==
    <<Item("Firstname", RowGet(frame, rw, ParentCol(i, "First Name"))),
      Item("Lastname", RowGet(frame, rw, ParentCol(i, "Last Name"))),
      Item("SMS", RowGet(frame, rw, ParentCol(i, "Phone Number"))),
      Item("Is FacultyStaff",
           normalize_boolean(RowGet(frame, rw, ParentCol(i, "Is FacultyStaff")))),
      Item("Street Address", RowGet(frame, rw, ParentCol(i, "Street Address"))),
      Item("City", RowGet(frame, rw, ParentCol(i, "City"))),
      Item("State", RowGet(frame, rw, ParentCol(i, "State"))),
      Item("ZIP Code", RowGet(frame, rw, ParentCol(i, "ZIP Code")))>>

\* Variant of HasEmail: the whitespace test is left out.
HasEmail_NoStrip(email) == NotNa(email)

\* Variant of HasEmail: the test for a blank cell is left out.
HasEmail_NoNotNa(email) == Strip(PyStr(email)) # <<>>

\* pd.notna(email) and str(email).strip()
HasEmail(email) == NotNa(email) /\ Strip(PyStr(email)) # <<>>

\* Variant of EmailKey: the key is not lower-cased.
EmailKey_NoLower(email) == Strip(PyStr(email))

\* str(email).lower().strip()
EmailKey(email) == Strip(Lower(PyStr(email)))

\* email_key not in processed_data
IsNewKey(data, email_key) == ~DictHas(data, email_key)

\* Parent_Info after a sighting, "app v2.py": the truthy values overwrite.
MergeParentInfoV2(info, details) == DictUpdate(info, TruthyItems(details))

\* Parent_Info after a later sighting, "app v1.py": every value overwrites.
MergeParentInfoV1(info, details) == DictUpdate(info, details)

\* Variant of HasSameId: only the student stored last is compared.
HasSameId_LastOnly(current_students, info) ==
    /\ current_students # <<>>
    /\ PyEq(DictGet(current_students[Len(current_students)], "ID Number"),
            DictGet(info, "ID Number"))

\* any(s.get("ID Number") == student_info.get("ID Number") for s in current_students)
HasSameId(current_students, info) ==
    \E j \in 1..Len(current_students) :
        PyEq(DictGet(current_students[j], "ID Number"), DictGet(info, "ID Number"))

\* Variant of AcceptsV2: the capacity test is off by one.
AcceptsV2_OffByOne(current_students, info) ==
    Len(current_students) <= max_students /\ ~HasSameId(current_students, info)

\* The condition under which the student is appended, "app v2.py".
AcceptsV2(current_students, info) ==
    Len(current_students) < max_students /\ ~HasSameId(current_students, info)

\* The condition under which the student is appended, "app v1.py".
AcceptsV1(current_students, info) ==
    /\ Len(current_students) < max_students
    /\ (DictGet(info, "ID Number").t = "none" \/ ~HasSameId(current_students, info))

\* Variant of SlotStepV2: every sighting sets the school name of the contact.
SlotStepV2_SchoolUpdated(data, frame, rw, i) ==
    LET email == RowGet(frame, rw, ParentCol(i, "Email")) IN
    IF ~HasEmail(email) THEN data
    ELSE
      LET email_key == EmailKey(email)
          old == IF IsNewKey(data, email_key)
                 THEN [Parent_Info |-> <<>>, Students_Info |-> <<>>,
                       School_Name |-> RowGet(frame, rw, "School Name")]
                 ELSE DictGet(data, email_key)
          info == student_info_v2(frame, rw)
      IN DictSet(data, email_key,
           [Parent_Info |-> MergeParentInfoV2(old.Parent_Info,
                                              parent_details_v2(frame, rw, i)),
            Students_Info |-> IF AcceptsV2(old.Students_Info, info)
                              THEN Append(old.Students_Info, info)
                              ELSE old.Students_Info,
            School_Name |-> RowGet(frame, rw, "School Name")])

\* Slot i of row rw, "app v2.py" lines 79-99.
SlotStepV2(data, frame, rw, i) ==
    LET email == RowGet(frame, rw, ParentCol(i, "Email")) IN
    IF ~HasEmail(email) THEN data
    ELSE
      LET email_key == EmailKey(email)
          old == IF IsNewKey(data, email_key)
                 THEN [Parent_Info |-> <<>>, Students_Info |-> <<>>,
                       School_Name |-> RowGet(frame, rw, "School Name")]
                 ELSE DictGet(data, email_key)
          info == student_info_v2(frame, rw)
      IN DictSet(data, email_key,
           [Parent_Info |-> MergeParentInfoV2(old.Parent_Info,
                                              parent_details_v2(frame, rw, i)),
            Students_Info |-> IF AcceptsV2(old.Students_Info, info)
                              THEN Append(old.Students_Info, info)
                              ELSE old.Students_Info,
            School_Name |-> old.School_Name])

\* Slot i of row rw, "app v1.py" lines 147-158.
SlotStepV1(data, frame, rw, i) ==
    LET email == RowGet(frame, rw, ParentCol(i, "Email")) IN
    IF ~HasEmail(email) THEN data
    ELSE
      LET email_key == EmailKey(email)
          details == parent_details_v1(frame, rw, i)
          old == IF IsNewKey(data, email_key)
                 THEN [Parent_Info |-> details, Students_Info |-> <<>>,
                       School_Name |-> DictGet(student_info_v1(frame, rw), "School Name")]
                 ELSE [DictGet(data, email_key) EXCEPT
                         !.Parent_Info = MergeParentInfoV1(@, details)]
          info == student_info_v1(frame, rw)
      IN DictSet(data, email_key,
           [old EXCEPT !.Students_Info =
               IF AcceptsV1(@, info) THEN Append(@, info) ELSE @])

\* One pass of the row loop: guardian slot 1, then guardian slot 2.
RowStep(v, data, frame, rw) ==
    IF v = "v2"
    THEN SlotStepV2(SlotStepV2(data, frame, rw, 1), frame, rw, 2)
    ELSE SlotStepV1(SlotStepV1(data, frame, rw, 1), frame, rw, 2)

(***************************************************************************)
(* Output projection of the consolidated map.                              *)
(***************************************************************************)
\* The items one student contributes to row_data at index i (0-based), "app v2.py".
StudentItemsV2(student, i) ==
    [j \in 1..Len(student) |-> Item(StudentCol(student[j].k, i + 1), student[j].v)]

RECURSIVE AllStudentItemsV2(_, _)
AllStudentItemsV2(students, i) ==
    IF i >= Len(students) THEN <<>>
    ELSE StudentItemsV2(students[i + 1], i) \o AllStudentItemsV2(students, i + 1)

\* row_data of one contact, "app v2.py" lines 103-107.
row_data_v2(email, data) ==
    DictUpdate(
      DictUpdate(<<Item("Email", Str(email)), Item("School Name", data.School_Name)>>,
                 data.Parent_Info),
      AllStudentItemsV2(data.Students_Info, 0))

output_student_base_names ==
    <<Item("SLC Name", "SLC Name"), Item("ID Number", "ID Number"),
      Item("Student First Name", "First Name"), Item("Student Last Name", "Last Name"),
      Item("Student Grade Level", "Grade Level"), Item("Student Homeroom", "Homeroom")>>

parent_cols ==
    <<"Firstname", "Lastname", "SMS", "Is FacultyStaff", "Street Address", "City",
      "State", "ZIP Code">>

RECURSIVE StudentColsV1(_)
StudentColsV1(i) ==
    IF i > max_students THEN <<>>
    ELSE [j \in 1..Len(output_student_base_names) |->
             StudentCol(output_student_base_names[j].v, i)]
         \o StudentColsV1(i + 1)

\* "app v1.py" lines 162-164.
output_cols_v1 == <<"Email", "School Name">> \o parent_cols \o StudentColsV1(1)

\* The items of student slot i (0-based), "app v1.py": the student's fields, or None.
StudentItemsV1(s_list, i) ==
    [j \in 1..Len(output_student_base_names) |->
        Item(StudentCol(output_student_base_names[j].v, i + 1),
             IF i < Len(s_list)
             THEN DictGet(s_list[i + 1], output_student_base_names[j].k)
             ELSE None)]

RECURSIVE AllStudentItemsV1(_, _)
AllStudentItemsV1(s_list, i) ==
    IF i >= max_students THEN <<>>
    ELSE StudentItemsV1(s_list, i) \o AllStudentItemsV1(s_list, i + 1)

\* row_data of one contact, "app v1.py" lines 167-176.
row_data_v1(email, data) ==
    DictUpdate(
      DictUpdate(<<Item("Email", Str(email)), Item("School Name", data.School_Name)>>,
                 data.Parent_Info),
      AllStudentItemsV1(data.Students_Info, 0))

\* One row per entry of the map, in the map's order.
output_rows(v, data) ==
    [j \in 1..Len(data) |->
        IF v = "v2" THEN row_data_v2(data[j].k, data[j].v)
                    ELSE row_data_v1(data[j].k, data[j].v)]

\* The output table.
OutputFrame(v, data) ==
    IF v = "v2" THEN DataFrame(output_rows(v, data))
    ELSE DataFrameWithColumns(output_rows(v, data), output_cols_v1)

(***************************************************************************)
(* Staff schema, "app v2.py".                                              *)
(***************************************************************************)
\* Variant of RenameColumn: the two name columns are crossed.
RenameColumn_Crossed(col) ==
    CASE col = "First Name" -> "Lastname"
      [] col = "Last Name" -> "Firstname"
      [] col = "Phone Number" -> "SMS"
      [] OTHER -> col

\* df.rename(columns={...}): the columns named are renamed, the others kept.
RenameColumn(col) ==
    CASE col = "First Name" -> "Firstname"
      [] col = "Last Name" -> "Lastname"
      [] col = "Phone Number" -> "SMS"
      [] OTHER -> col

Rename(frame) ==
    [columns |-> [j \in 1..Len(frame.columns) |-> RenameColumn(frame.columns[j])],
     data |-> frame.data]

staff_output_cols ==
    <<"Email", "School Name", "Firstname", "Lastname", "SMS", "Street Address", "City",
      "State", "ZIP Code">>

\* The positions of the columns called col, in column order.
PositionsOf(col, columns) ==
    SelectSeq([j \in 1..Len(columns) |-> j], LAMBDA j : columns[j] = col)

RECURSIVE AllPositions(_, _)
AllPositions(cols, columns) ==
    IF cols = <<>> THEN <<>>
    ELSE PositionsOf(Head(cols), columns) \o AllPositions(Tail(cols), columns)

\* frame[cols]: the named columns in the order asked for, every row kept.
SelectColumns(frame, cols) ==
    LET pos == AllPositions(cols, frame.columns) IN
    [columns |-> [c \in 1..Len(pos) |-> frame.columns[pos[c]]],
     data |-> [rw \in 1..Len(frame.data) |->
                 [c \in 1..Len(pos) |-> frame.data[rw][pos[c]]]]]

(***************************************************************************)
(* File names.  A file name is a str: a sequence of one-character strings. *)
(***************************************************************************)
StudentParentSuffix ==
    <<"-", " ", "S", "t", "u", "d", "e", "n", "t", "P", "a", "r", "e", "n", "t", " ",
      "I", "n", "f", "o", "r", "m", "a", "t", "i", "o", "n">>

FacultyStaffSuffix ==
    <<"-", " ", "F", "a", "c", "u", "l", "t", "y", "S", "t", "a", "f", "f", " ", "I",
      "n", "f", "o", "r", "m", "a", "t", "i", "o", "n">>

BrevoContactsV2 ==
    <<" ", "-", " ", "B", "r", "e", "v", "o", " ", "C", "o", "n", "t", "a", "c", "t",
      "s", ".", "x", "l", "s", "x">>

BrevoContactsV1 ==
    <<"-", " ", "B", "r", "e", "v", "o", " ", "C", "o", "n", "t", "a", "c", "t", "s",
      ".", "x", "l", "s", "x">>

ProcessedData ==
    <<"P", "r", "o", "c", "e", "s", "s", "e", "d", "D", "a", "t", "a">>

\* The characters \w matches.
WordChars ==
    {"0", "1", "2", "3", "4", "5", "6", "7", "8", "9", "A", "B", "C", "D", "E", "F", "G", "H", "I", "J", "K",
     "L", "M", "N", "O", "P", "Q", "R", "S", "T", "U", "V", "W", "X", "Y", "Z", "_", "a", "b", "c", "d", "e",
     "f", "g", "h", "i", "j", "k", "l", "m", "n", "o", "p", "q", "r", "s", "t", "u", "v", "w", "x", "y", "z"}

\* Variant of EndsWith: the suffix may stand anywhere in s.
EndsWith_Anywhere(s, suffix) ==
    \E k \in 1..(Len(s) - Len(suffix) + 1) : SubSeq(s, k, k + Len(suffix) - 1) = suffix

\* s.endswith(suffix)
EndsWith(s, suffix) ==
    Len(suffix) <= Len(s) /\ SubSeq(s, Len(s) - Len(suffix) + 1, Len(s)) = suffix

\* s.rfind(c): the last position of c, counted from 1; 0 when there is none.
RFind(s, c) ==
    LET at == {k \in 1..Len(s) : s[k] = c} IN
    IF at = {} THEN 0 ELSE CHOOSE k \in at : \A m \in at : m <= k

\* os.path.splitext(p)[0]: p up to its last dot, when that dot is in the last
\* path component and some character other than a dot precedes it there.
SplitExtRoot(p) ==
    LET sepIndex == RFind(p, "/")
        dotIndex == RFind(p, ".")
    IN IF dotIndex > sepIndex /\ \E k \in (sepIndex + 1)..(dotIndex - 1) : p[k] # "."
       THEN SubSeq(p, 1, dotIndex - 1)
       ELSE p

\* s.replace(old, ""): every occurrence of old, found left to right, is removed.
RECURSIVE Remove(_, _)
Remove(s, old) ==
    IF Len(s) < Len(old) \/ old = <<>> THEN s
    ELSE IF SubSeq(s, 1, Len(old)) = old THEN Remove(SubSeq(s, Len(old) + 1, Len(s)), old)
    ELSE <<Head(s)>> \o Remove(Tail(s), old)

\* re.sub(r'[^\w\s-]', '', s)
Sanitize(s) == SelectSeq(s, LAMBDA c : c \in WordChars \/ IsSpace(c) \/ c = "-")

\* re.sub(r'\s+', ' ', s)
RECURSIVE CollapseSpaces(_)
CollapseSpaces(s) ==
    IF s = <<>> THEN <<>>
    ELSE IF IsSpace(Head(s))
         THEN <<" ">> \o CollapseSpaces(LStrip(s))
         ELSE <<Head(s)>> \o CollapseSpaces(Tail(s))

\* s.split('-', 1)[0]
BeforeFirstHyphen(s) ==
    LET at == {k \in 1..Len(s) : s[k] = "-"} IN
    IF at = {} THEN s ELSE SubSeq(s, 1, (CHOOSE k \in at : \A m \in at : k <= m) - 1)

MAX_PREFIX_LEN == 50

\* generate_output_download_name, "app v2.py".
generate_output_download_name_v2(original_input_basename) ==
    LET name_part_without_ext == SplitExtRoot(original_input_basename)
        base_name ==
            IF EndsWith(name_part_without_ext, StudentParentSuffix)
            THEN Remove(name_part_without_ext, StudentParentSuffix)
            ELSE IF EndsWith(name_part_without_ext, FacultyStaffSuffix)
            THEN Remove(name_part_without_ext, FacultyStaffSuffix)
            ELSE name_part_without_ext
        sanitized_base == Strip(Sanitize(base_name))
    IN sanitized_base \o BrevoContactsV2

\* generate_output_download_name, "app v1.py".
generate_output_download_name_v1(original_input_basename) ==
    IF original_input_basename = <<>> THEN ProcessedData \o BrevoContactsV1
    ELSE LET name_part_without_ext == SplitExtRoot(original_input_basename)
             sanitized_base == Strip(CollapseSpaces(Sanitize(name_part_without_ext)))
             parts0 == Strip(BeforeFirstHyphen(sanitized_base))
             prefix == IF parts0 = <<>> THEN ProcessedData ELSE parts0
         IN SubSeq(prefix, 1, IF Len(prefix) < MAX_PREFIX_LEN THEN Len(prefix)
                                                             ELSE MAX_PREFIX_LEN)
            \o BrevoContactsV1

generate_output_download_name(v, original_input_basename) ==
    IF v = "v1" THEN generate_output_download_name_v1(original_input_basename)
    ELSE generate_output_download_name_v2(original_input_basename)

\* The text of a str, for the messages that quote it.
RECURSIVE Text(_)
Text(chars) == IF chars = <<>> THEN "" ELSE Head(chars) \o Text(Tail(chars))

(***************************************************************************)
(* One invocation of process_spreadsheet ("app v2.py") or of                *)
(* process_uploaded_spreadsheet ("app v1.py") on an uploaded file.         *)
(*   ver               revision that runs ("v1" or "v2")                   *)
(*   original_filename the name the file was uploaded under                *)
(*   readable          whether pd.read_excel can decode the file           *)
(*   df                the decoded sheet                                   *)
(*   kind              the processing chosen: "none" before the choice,    *)
(*                     "student" (Student-Guardian) or "staff"             *)
(*   pc                where the invocation stands                         *)
(*   r                 number of the next row of the row loop              *)
(*   processed_data    the consolidated map, keyed by normalized email     *)
(*   result            what the function returns                           *)
(*   download_name     the name upload_excel sends the output under        *)
(*   served            number of uploads answered so far                   *)
(*   uploaded_on_disk  the temp file holding the upload exists             *)
(*   processed_on_disk the temp file holding the output exists             *)
(*   cleanup_pending   an after_this_request callback is registered and    *)
(*                     has not run yet                                     *)
(*   response          what upload_excel answers: "none" before it has     *)
(*                     answered, "file", "400" or "500"                    *)
(* pc is "call" at the call, "start" at the call of a processing function, *)
(* "rows" in the row loop, "done" when the function has returned and       *)
(* "responded" when upload_excel has built its response; the request is    *)
(* over once the after_this_request callback, if any, has run.  r and      *)
(* processed_data are locals of the processing function: between two       *)
(* uploads they hold what the last call left, until the code sets them.    *)
(***************************************************************************)
VARIABLES ver, original_filename, readable, kind, df, pc, r, processed_data, result,
          download_name, served, uploaded_on_disk, processed_on_disk, cleanup_pending,
          response

vars ==
    <<ver, original_filename, readable, kind, df, pc, r, processed_data, result,
      download_name, served, uploaded_on_disk, processed_on_disk, cleanup_pending,
      response>>

\* The temp files of the request, the registered callback and the answer.
request == <<uploaded_on_disk, processed_on_disk, cleanup_pending, response>>

\* _remove_file: whether the file exists after the call.
_remove_file(on_disk) == IF on_disk THEN FALSE ELSE on_disk

EmptyFrame == [columns |-> <<>>, data |-> <<>>]

NoResult == [tag |-> "none", frame |-> EmptyFrame, message |-> "", details |-> <<>>]

Success(frame) == [tag |-> "frame", frame |-> frame, message |-> "", details |-> <<>>]

Failure(message, details) ==
    [tag |-> "error", frame |-> EmptyFrame, message |-> message, details |-> details]

RECURSIVE Join(_, _)
Join(sep, strs) ==
    IF strs = <<>> THEN ""
    ELSE IF Len(strs) = 1 THEN Head(strs)
    ELSE Head(strs) \o sep \o Join(sep, Tail(strs))

\* What the revision returns when required columns are missing.
ColumnMismatch(v, k, missing_cols, df_columns) ==
    IF v = "v1"
    THEN Failure("Missing columns: " \o Join(", ", missing_cols) \o ". Available: "
                    \o Join(", ", df_columns), <<>>)
    ELSE Failure(IF k = "student" THEN "Column mismatch in Student-Parent file."
                                  ELSE "Column mismatch in Faculty-Staff file.",
                 error_details(missing_cols, df_columns))

expected_cols(v) == IF v = "v1" THEN expected_cols_v1 ELSE expected_cols_v2

\* str(e) of the exception pd.read_excel raised.
ReadError == "str(e)"

CouldNotRead ==
    "Could not read the Excel file. It may be corrupted or in an unsupported format."

InvalidFileName ==
    "Invalid file name. Name must end with '- StudentParent Information' or '- FacultyStaff Information'."

\* Variant of process_spreadsheet: the exception of pd.read_excel is not caught.
process_spreadsheet_NoExcept ==
    /\ pc = "call"
    /\ ver = "v2"
    /\ LET name_part == SplitExtRoot(original_filename) IN
         IF ~readable
         THEN /\ result' = [NoResult EXCEPT !.tag = "raised"]
              /\ pc' = "done"
              /\ UNCHANGED kind
         ELSE IF EndsWith(name_part, StudentParentSuffix)
         THEN /\ kind' = "student"
              /\ pc' = "start"
              /\ UNCHANGED result
         ELSE IF EndsWith(name_part, FacultyStaffSuffix)
         THEN /\ kind' = "staff"
              /\ pc' = "start"
              /\ UNCHANGED result
         ELSE /\ result' = Failure(InvalidFileName,
                                   <<"Your filename: '" \o Text(original_filename) \o "'">>)
              /\ pc' = "done"
              /\ UNCHANGED kind
    /\ UNCHANGED <<request, served, download_name, ver, original_filename, readable, df, r, processed_data>>

\* process_spreadsheet ("app v2.py") up to the call of a processing function:
\* the file is decoded, then the file name without its extension is tested.
process_spreadsheet ==
    /\ pc = "call"
    /\ ver = "v2"
    /\ LET name_part == SplitExtRoot(original_filename) IN
         IF ~readable
         THEN /\ result' = Failure(CouldNotRead, <<ReadError>>)
              /\ pc' = "done"
              /\ UNCHANGED kind
         ELSE IF EndsWith(name_part, StudentParentSuffix)
         THEN /\ kind' = "student"
              /\ pc' = "start"
              /\ UNCHANGED result
         ELSE IF EndsWith(name_part, FacultyStaffSuffix)
         THEN /\ kind' = "staff"
              /\ pc' = "start"
              /\ UNCHANGED result
         ELSE /\ result' = Failure(InvalidFileName,
                                   <<"Your filename: '" \o Text(original_filename) \o "'">>)
              /\ pc' = "done"
              /\ UNCHANGED kind
    /\ UNCHANGED <<request, served, download_name, ver, original_filename, readable, df, r, processed_data>>

\* process_uploaded_spreadsheet ("app v1.py") up to the column validation: the
\* file is decoded; every file is a Student-Guardian sheet.
read_excel_v1 ==
    /\ pc = "call"
    /\ ver = "v1"
    /\ IF ~readable
       THEN /\ result' = Failure("Error reading Excel file: " \o ReadError, <<>>)
            /\ pc' = "done"
            /\ UNCHANGED kind
       ELSE /\ kind' = "student"
            /\ pc' = "start"
            /\ UNCHANGED result
    /\ UNCHANGED <<request, served, download_name, ver, original_filename, readable, df, r, processed_data>>

\* Variant of ValidateStudentParent: the consolidated map is not set to empty.
ValidateStudentParent_NoReset ==
    /\ pc = "start"
    /\ kind = "student"
    /\ LET missing_cols == _validate_columns(df.columns, expected_cols(ver)) IN
         IF missing_cols # <<>>
         THEN /\ result' = ColumnMismatch(ver, kind, missing_cols, df.columns)
              /\ pc' = "done"
              /\ UNCHANGED r
         ELSE /\ pc' = "rows"
              /\ r' = 1
              /\ UNCHANGED result
    /\ UNCHANGED <<request, served, download_name, ver, original_filename, readable, kind, df,
                   processed_data>>

\* Column validation at the head of the Student-Guardian processing; when it
\* passes, the consolidated map is created empty and the row loop starts.
ValidateStudentParent ==
    /\ pc = "start"
    /\ kind = "student"
    /\ LET missing_cols == _validate_columns(df.columns, expected_cols(ver)) IN
         IF missing_cols # <<>>
         THEN /\ result' = ColumnMismatch(ver, kind, missing_cols, df.columns)
              /\ pc' = "done"
              /\ UNCHANGED processed_data
              /\ UNCHANGED r
         ELSE /\ pc' = "rows"
              /\ processed_data' = <<>>
              /\ r' = 1
              /\ UNCHANGED result
    /\ UNCHANGED <<request, served, download_name, ver, original_filename, readable, kind, df>>

\* One iteration of `for _, row in df.iterrows()`.
ProcessRow ==
    /\ pc = "rows"
    /\ r <= Len(df.data)
    /\ processed_data' = RowStep(ver, processed_data, df, r)
    /\ r' = r + 1
    /\ UNCHANGED <<request, served, download_name, ver, original_filename, readable, kind, df, pc, result>>

\* The row loop is over: build output_rows and the output table.
ProjectOutput ==
    /\ pc = "rows"
    /\ r > Len(df.data)
    /\ result' = Success(OutputFrame(ver, processed_data))
    /\ pc' = "done"
    /\ UNCHANGED <<request, served, download_name, ver, original_filename, readable, kind, df, r, processed_data>>

\* _process_faculty_staff_info, whole.
ProcessFacultyStaff ==
    /\ pc = "start"
    /\ kind = "staff"
    /\ LET missing_cols == _validate_columns(df.columns, staff_expected_cols) IN
         result' = IF missing_cols # <<>>
                   THEN ColumnMismatch(ver, kind, missing_cols, df.columns)
                   ELSE Success(SelectColumns(Rename(df), staff_output_cols))
    /\ pc' = "done"
    /\ UNCHANGED <<request, served, download_name, ver, original_filename, readable, kind, df, r, processed_data>>

\* upload_excel once the processing has returned: on success the output is
\* sent under the generated download name and the removal of the temp files is
\* left to the after_this_request callback, on failure the error is sent.
\* "app v1.py" removes the uploaded file as soon as the processing has
\* returned, and the processed file when the processing failed; "app v2.py"
\* creates the processed file only after a successful processing.
upload_excel ==
    /\ pc = "done"
    /\ pc' = "responded"
    /\ download_name' = IF result.tag = "frame"
                        THEN generate_output_download_name(ver, original_filename)
                        ELSE <<>>
    /\ IF ver = "v2"
       THEN IF result.tag = "frame"
            THEN /\ processed_on_disk' = TRUE
                 /\ cleanup_pending' = TRUE
                 /\ response' = "file"
                 /\ UNCHANGED uploaded_on_disk
            ELSE /\ response' = "400"
                 /\ UNCHANGED <<uploaded_on_disk, processed_on_disk, cleanup_pending>>
       ELSE /\ uploaded_on_disk' = _remove_file(uploaded_on_disk)
            /\ IF result.tag = "frame"
               THEN /\ cleanup_pending' = TRUE
                    /\ response' = "file"
                    /\ UNCHANGED processed_on_disk
               ELSE /\ processed_on_disk' = _remove_file(processed_on_disk)
                    /\ response' = "500"
                    /\ UNCHANGED cleanup_pending
    /\ served' = served + 1
    /\ UNCHANGED <<ver, original_filename, readable, kind, df, r, processed_data, result>>

\* upload_excel when a step after a successful processing raises: writing the
\* output into the processed temp file ("app v2.py"), building the response
\* ("app v1.py", whose uploaded file is removed by then).  The except clause
\* removes both temp files and answers 500.
upload_excel_except ==
    /\ pc = "done"
    /\ result.tag = "frame"
    /\ pc' = "responded"
    /\ download_name' = <<>>
    /\ uploaded_on_disk' = _remove_file(uploaded_on_disk)
    /\ processed_on_disk' = _remove_file(IF ver = "v2" THEN TRUE ELSE processed_on_disk)
    /\ response' = "500"
    /\ served' = served + 1
    /\ UNCHANGED <<cleanup_pending, ver, original_filename, readable, kind, df, r,
                   processed_data, result>>

\* The after_this_request callback, run once the response is built.
cleanup ==
    /\ pc = "responded"
    /\ cleanup_pending
    /\ cleanup_pending' = FALSE
    /\ uploaded_on_disk' = IF ver = "v2" THEN _remove_file(uploaded_on_disk)
                           ELSE uploaded_on_disk
    /\ processed_on_disk' = _remove_file(processed_on_disk)
    /\ UNCHANGED <<response, served, download_name, ver, original_filename, readable, kind,
                   df, pc, r, processed_data, result>>

Next ==
    \/ upload_excel
    \/ upload_excel_except
    \/ cleanup
    \/ process_spreadsheet
    \/ read_excel_v1
    \/ ValidateStudentParent
    \/ ProcessRow
    \/ ProjectOutput
    \/ ProcessFacultyStaff

(***************************************************************************)
(* The sheets the invocations are run on.                                  *)
(***************************************************************************)
\* A guardian slot: its email cell and its attribute cells.  The attributes are
\*   "full"  every attribute present, marked with tag;
\*   "blank" every attribute cell blank;
\*   "falsy" empty strings, zeros and blanks, one attribute present.
MkSlot(email, attrs, tag) ==
    LET val(f) == Str(<<tag, f>>) IN
    CASE attrs = "full" ->
           [email |-> email, first |-> val("F"), last |-> val("L"), phone |-> val("P"),
            fs |-> Str(<<"Y", "e", "s">>), street |-> val("S"), city |-> val("C"),
            state |-> val("T"), zip |-> val("Z")]
      [] attrs = "blank" ->
           [email |-> email, first |-> NaN, last |-> NaN, phone |-> NaN, fs |-> NaN,
            street |-> NaN, city |-> NaN, state |-> NaN, zip |-> NaN]
      [] attrs = "falsy" ->
           [email |-> email, first |-> Str(<<>>), last |-> NaN, phone |-> Num(0),
            fs |-> Num(0), street |-> val("S"), city |-> NaN, state |-> Str(<<>>),
            zip |-> Num(0)]

\* A row: the student (ID cell, descriptive cells marked with tag), the school
\* name cell and the two guardian slots.
MkRow(id, tag, school, slot1, slot2) ==
    [id |-> id, first |-> Str(<<tag, "f">>), last |-> Str(<<tag, "l">>),
     grade |-> Str(<<tag, "g">>), home |-> Str(<<tag, "h">>), slc |-> Str(<<tag, "c">>),
     school |-> school, slots |-> <<slot1, slot2>>]

\* The cells of a slot in the order of the slot's columns in revision v.
SlotCells(v, slot) ==
    IF v = "v1"
    THEN <<slot.first, slot.last, slot.email, slot.phone, slot.fs, slot.street,
           slot.city, slot.state, slot.zip>>
    ELSE <<slot.first, slot.last, slot.email, slot.phone, slot.street, slot.city,
           slot.state, slot.zip>>

\* The cells of a row in the order of expected_cols(v).
RowCells(v, row) ==
    (IF v = "v1"
     THEN <<row.school, row.slc, row.id, row.first, row.last, row.grade, row.home>>
     ELSE <<row.school, row.id, row.first, row.last, row.grade, row.home>>)
    \o SlotCells(v, row.slots[1]) \o SlotCells(v, row.slots[2])

\* A staff row: the ID cell, the school name cell and one slot of cells.
MkStaff(id, school, slot) == [id |-> id, school |-> school, slot |-> slot]

\* The cells of a staff row in the order of staff_expected_cols.
StaffCells(row) ==
    <<row.school, row.id, row.slot.first, row.slot.last, row.slot.email, row.slot.phone,
      row.slot.street, row.slot.city, row.slot.state, row.slot.zip>>

\* The decoded sheet with the given columns and rows of cells.
Sheet(columns, rows) == [columns |-> columns, data |-> rows]

\* seq without its j-th element.
DropAt(seq, j) == SubSeq(seq, 1, j - 1) \o SubSeq(seq, j + 1, Len(seq))

\* frame without its j-th column.
DropColumn(frame, j) ==
    [columns |-> DropAt(frame.columns, j),
     data |-> [rw \in 1..Len(frame.data) |-> DropAt(frame.data[rw], j)]]

\* frame with one more column, in front, that holds a note in every row.
AddColumn(frame, col) ==
    [columns |-> <<col>> \o frame.columns,
     data |-> [rw \in 1..Len(frame.data) |->
                 <<Str(<<"n", "o", "t", "e">>)>> \o frame.data[rw]]]

\* The sequences of length n whose j-th element is drawn from choice[j].
RECURSIVE SeqsOver(_, _)
SeqsOver(choice, n) ==
    IF n = 0 THEN {<<>>}
    ELSE {Append(sq, x) : sq \in SeqsOver(choice, n - 1), x \in choice[n]}

\* The sequences of length 0..n whose j-th element is drawn from choice[j].
SeqsUpTo(choice, n) == UNION {SeqsOver(choice, m) : m \in 0..n}

Ch(c) == Str(<<c>>)

Tag(j) == ToString(j)

\* The Student-Guardian sheet of revision v with the given rows.
StudentSheet(v, rows) ==
    Sheet(expected_cols(v), [rw \in 1..Len(rows) |-> RowCells(v, rows[rw])])

\* Student-Guardian sheets that lack a required column.
MalformedStudentSheets(v) ==
    {DropColumn(StudentSheet(v, <<MkRow(Num(1), "1", Ch("K"), MkSlot(Ch("a"), "full", "1"),
                                        MkSlot(NaN, "blank", "q"))>>),
                IndexOf(col, expected_cols(v))) :
        col \in {"Student Grade Level", ParentCol(2, "Email")}}

\* Staff sheets: up to MaxStaffRows rows, two of which share an email and one of
\* which has a blank email; with or without a column outside the schema; or
\* lacking a required column.
MaxStaffRows == 3

StaffRows ==
    {MkStaff(Num(1), Ch("K"), MkSlot(Ch("s"), "full", "1")),
     MkStaff(Num(2), Ch("L"), MkSlot(Ch("s"), "falsy", "2")),
     MkStaff(NaN, NaN, MkSlot(NaN, "full", "3"))}

StaffSheet(rows) ==
    Sheet(staff_expected_cols, [rw \in 1..Len(rows) |-> StaffCells(rows[rw])])

StaffSheets ==
    UNION {{StaffSheet(rows), AddColumn(StaffSheet(rows), "Notes"),
            DropColumn(StaffSheet(rows), IndexOf("Phone Number", staff_expected_cols))} :
           rows \in SeqsUpTo([j \in 1..MaxStaffRows |-> StaffRows], MaxStaffRows)}

\* File names: one of each schema, and one of neither.
FileName(base, suffix, ext) == base \o suffix \o ext

Dotxlsx == <<".", "x", "l", "s", "x">>

StudentFile == FileName(<<"L", " ">>, StudentParentSuffix, Dotxlsx)

StaffFile == FileName(<<"L", " ">>, FacultyStaffSuffix, Dotxlsx)

OtherFile == FileName(<<"L", "i", "n", "c", "o", "l", "n">>, <<>>, Dotxlsx)

\* A Student-Guardian sheet of one row.
OneRowSheet(v) ==
    StudentSheet(v, <<MkRow(Num(1), "1", Ch("K"), MkSlot(Ch("a"), "full", "1"),
                            MkSlot(NaN, "blank", "q"))>>)

\* The state at the call: a Student-Guardian file with every expected column
\* (wellFormed says which sheets), one that lacks a column, a staff file, a
\* file that cannot be decoded, or a file whose name has neither suffix.
InitOn(wellFormed) ==
    /\ \/ /\ ver \in {"v1", "v2"}
          /\ original_filename = StudentFile
          /\ readable = TRUE
          /\ \/ wellFormed
             \/ df \in MalformedStudentSheets(ver)
       \/ /\ ver = "v2"
          /\ original_filename = StaffFile
          /\ readable = TRUE
          /\ df \in StaffSheets
       \/ /\ ver \in {"v1", "v2"}
          /\ original_filename \in {StudentFile, OtherFile}
          /\ readable = FALSE
          /\ df = EmptyFrame
       \/ /\ ver \in {"v1", "v2"}
          /\ original_filename = OtherFile
          /\ readable = TRUE
          /\ df = OneRowSheet(ver)
    /\ kind = "none"
    /\ pc = "call"
    /\ r = 1
    /\ processed_data = <<>>
    /\ result = NoResult
    /\ download_name = <<>>
    /\ served = 0
    /\ uploaded_on_disk = TRUE
    /\ processed_on_disk = (ver = "v1")
    /\ cleanup_pending = FALSE
    /\ response = "none"

(***************************************************************************)
(* Spec: sheets of up to MaxRows rows with distinct student IDs; guardian  *)
(* 1 is a or b with full, blank or falsy attributes, guardian 2 is absent  *)
(* or a.                                                                   *)
(***************************************************************************)
MaxRows == 2

RowChoices == {Ch("a"), Ch("b")} \X {"full", "blank", "falsy"} \X {NaN, Ch("a")}

RowOf(j, c) ==
    MkRow(Num(j), Tag(j), IF c[2] = "blank" THEN NaN ELSE Str(<<"K", Tag(j)>>),
          MkSlot(c[1], c[2], Tag(j)), MkSlot(c[3], "full", "q"))

Init ==
    InitOn(\E n \in 0..MaxRows : \E c \in [1..n -> RowChoices] :
               df = StudentSheet(ver, [j \in 1..n |-> RowOf(j, c[j])]))

Spec == Init /\ [][Next]_vars

(***************************************************************************)
(* SpecEmails: sheets of up to MaxEmailRows rows whose guardian email      *)
(* cells vary: blank, empty, whitespace only, a number, and spellings of   *)
(* the same address that differ in case and surrounding whitespace.        *)
(***************************************************************************)
MaxEmailRows == 2

EmailChoices ==
    {NaN, Str(<<" ">>), Ch("a"), Str(<<" ", "A">>), Ch("b"), Num(7)}
    \X {NaN, Str(<<"A", " ">>), Str(<<>>)}

EmailRowOf(j, c) ==
    MkRow(Num(j), Tag(j), Ch("K"), MkSlot(c[1], "full", Tag(j)), MkSlot(c[2], "full", "q"))

InitEmails ==
    InitOn(\E n \in 0..MaxEmailRows : \E c \in [1..n -> EmailChoices] :
               df = StudentSheet(ver, [j \in 1..n |-> EmailRowOf(j, c[j])]))

SpecEmails == InitEmails /\ [][Next]_vars

(***************************************************************************)
(* SpecStudents: sheets of up to MaxStudentRows rows for guardian a, the   *)
(* even rows also for guardian b.  Row j carries the student ID j ("own"), *)
(* or repeats the ID 1 ("first"), or has a blank ID cell ("none"); the     *)
(* descriptive cells of row j are marked j.                                *)
(***************************************************************************)
MaxStudentRows == 6

StudentChoices == {"own", "first", "none"}

StudentRowOf(j, c) ==
    MkRow(CASE c = "own" -> Num(j) [] c = "first" -> Num(1) [] OTHER -> NaN,
          Tag(j), Ch("K"), MkSlot(Ch("a"), "full", Tag(j)),
          MkSlot(IF j % 2 = 0 THEN Ch("b") ELSE NaN, "full", "q"))

InitStudents ==
    InitOn(\E n \in 0..MaxStudentRows : \E c \in [1..n -> StudentChoices] :
               df = StudentSheet(ver, [j \in 1..n |-> StudentRowOf(j, c[j])]))

SpecStudents == InitStudents /\ [][Next]_vars

(***************************************************************************)
(* SpecSlots: sheets of up to MaxSlotRows rows whose guardian 1 is a with  *)
(* full attributes and whose guardian 2 is the same address in another     *)
(* spelling, or b, with full, blank or falsy attributes; the ID cell of    *)
(* row j is j ("own") or blank ("none").                                   *)
(***************************************************************************)
MaxSlotRows == 2

SlotChoices ==
    {"own", "none"} \X {Str(<<"A", " ">>), Ch("b")} \X {"full", "blank", "falsy"}

SlotRowOf(j, c) ==
    MkRow(IF c[1] = "own" THEN Num(j) ELSE NaN, Tag(j), Ch("K"),
          MkSlot(Ch("a"), "full", Tag(j)), MkSlot(c[2], c[3], "q"))

InitSlots ==
    InitOn(\E n \in 0..MaxSlotRows : \E c \in [1..n -> SlotChoices] :
               df = StudentSheet(ver, [j \in 1..n |-> SlotRowOf(j, c[j])]))

SpecSlots == InitSlots /\ [][Next]_vars

(***************************************************************************)
(* SpecFiles: files under names with and without the schema suffixes, that *)
(* cannot be decoded or that hold a one-row Student-Guardian sheet or a    *)
(* one-row staff sheet: whole, without some of its columns, with a column  *)
(* outside the schema, or with its columns in reverse order.               *)
(***************************************************************************)
Dotxls == <<".", "x", "l", "s">>

\* The names upload_excel lets through end with .xlsx or .xls.
FileNames ==
    {StudentFile, StaffFile, OtherFile,
     FileName(<<"L", " ">>, FacultyStaffSuffix, Dotxls),
     FileName(<<>>, StudentParentSuffix, Dotxlsx),
     FileName(<<"S", "t", ".", " ", "M", " ">>, FacultyStaffSuffix, Dotxlsx),
     FileName(<<"L", " ">>, Lower(StudentParentSuffix), Dotxlsx),
     FileName(<<"L", " ">>, StudentParentSuffix \o <<" ">>, Dotxlsx),
     FileName(<<"L", " ">>, StudentParentSuffix \o <<".", "v", "2">>, Dotxlsx),
     FileName(<<"L", " ">> \o StudentParentSuffix \o <<" ">>, FacultyStaffSuffix, Dotxlsx),
     FileName(<<"L", " ">> \o FacultyStaffSuffix \o <<" ">>, StudentParentSuffix, Dotxls),
     Dotxlsx}

\* frame without the columns named, which it has.
RECURSIVE DropColumns(_, _)
DropColumns(frame, cols) ==
    IF cols = {} THEN frame
    ELSE LET col == CHOOSE c \in cols : TRUE IN
         DropColumns(DropColumn(frame, IndexOf(col, frame.columns)), cols \ {col})

Reverse(seq) == [j \in 1..Len(seq) |-> seq[Len(seq) + 1 - j]]

\* frame with its columns in reverse order.
ReverseColumns(frame) ==
    [columns |-> Reverse(frame.columns),
     data |-> [rw \in 1..Len(frame.data) |-> Reverse(frame.data[rw])]]

OneRowStaffSheet == StaffSheet(<<MkStaff(Num(1), Ch("K"), MkSlot(Ch("s"), "full", "1"))>>)

FileSheets(v) ==
    {DropColumns(OneRowSheet(v), cols) :
        cols \in SUBSET {"Student Grade Level", ParentCol(2, "Email"), "School Name"}}
    \cup {DropColumns(OneRowStaffSheet, cols) : cols \in SUBSET {"Phone Number", "Email"}}
    \cup {AddColumn(OneRowSheet(v), "Notes"), ReverseColumns(OneRowSheet(v)),
          ReverseColumns(DropColumns(OneRowStaffSheet, {"City", "ID Number"})),
          EmptyFrame}

InitFiles ==
    /\ ver \in {"v1", "v2"}
    /\ original_filename \in FileNames
    /\ \/ /\ readable = TRUE
          /\ df \in FileSheets(ver)
       \/ /\ readable = FALSE
          /\ df = EmptyFrame
    /\ kind = "none"
    /\ pc = "call"
    /\ r = 1
    /\ processed_data = <<>>
    /\ result = NoResult
    /\ download_name = <<>>
    /\ served = 0
    /\ uploaded_on_disk = TRUE
    /\ processed_on_disk = (ver = "v1")
    /\ cleanup_pending = FALSE
    /\ response = "none"

SpecFiles == InitFiles /\ [][Next]_vars

(***************************************************************************)
(* SpecFlags: sheets of up to MaxFlagRows rows, each with a guardian of    *)
(* its own whose 'Parent 1 Is FacultyStaff' cell varies over booleans,     *)
(* numbers, blanks and texts.  Only "app v1.py" reads that cell.           *)
(***************************************************************************)
MaxFlagRows == 2

FlagTexts ==
    {<<"Y", "e", "s">>,
     <<"0">>,
     <<>>,
     <<" ", "T", "R", "U", "E", " ">>,
     <<"m", "a", "y", "b", "e">>,
     <<"o", "F", "F">>,
     <<"t">>,
     <<"O", "n">>,
     <<"n", "o">>,
     <<"1">>,
     <<"f">>,
     <<"f", "a", "l", "s", "e">>,
     <<"y">>,
     <<"t", "r", "u", "e", " ">>}

FlagChoices ==
    {Bool(TRUE), Bool(FALSE), Num(1), Num(0), Num(2), NaN, None}
    \cup {Str(w) : w \in FlagTexts}

FlagRowOf(j, c) ==
    MkRow(Num(j), Tag(j), Ch("K"),
          [MkSlot(Str(<<"a", Tag(j)>>), "full", Tag(j)) EXCEPT !.fs = c],
          MkSlot(NaN, "blank", "q"))

InitFlags ==
    InitOn(\E n \in 0..MaxFlagRows : \E c \in [1..n -> FlagChoices] :
               df = StudentSheet(ver, [j \in 1..n |-> FlagRowOf(j, c[j])]))

SpecFlags == InitFlags /\ [][Next]_vars

(***************************************************************************)
(* SpecRepeat: the server answers up to MaxUploads uploads, one after the  *)
(* other.  The files hold Student-Guardian sheets of up to MaxRepeatRows   *)
(* rows for the guardians a and b (rows as in SpecStudents), or one of the *)
(* other kinds of file.                                                    *)
(***************************************************************************)
MaxUploads == 2

MaxRepeatRows == 2

Upload(name, ok, frame) == [name |-> name, readable |-> ok, df |-> frame]

Uploads(v) ==
    {Upload(StudentFile, TRUE, StudentSheet(v, rows)) :
        rows \in UNION {{[j \in 1..n |-> StudentRowOf(j + 1, c[j])] : c \in [1..n -> StudentChoices]} :
                           n \in 0..MaxRepeatRows}}
    \cup {Upload(StudentFile, TRUE, frame) : frame \in MalformedStudentSheets(v)}
    \cup {Upload(StaffFile, TRUE, OneRowStaffSheet), Upload(OtherFile, TRUE, OneRowSheet(v)),
          Upload(StudentFile, FALSE, EmptyFrame)}

InitRepeat ==
    /\ ver \in {"v1", "v2"}
    /\ \E u \in Uploads(ver) :
          /\ original_filename = u.name
          /\ readable = u.readable
          /\ df = u.df
    /\ kind = "none"
    /\ pc = "call"
    /\ r = 1
    /\ processed_data = <<>>
    /\ result = NoResult
    /\ download_name = <<>>
    /\ served = 0
    /\ uploaded_on_disk = TRUE
    /\ processed_on_disk = (ver = "v1")
    /\ cleanup_pending = FALSE
    /\ response = "none"

\* The next upload arrives once the last one is answered.
NextUpload ==
    /\ pc = "responded"
    /\ ~cleanup_pending
    /\ served < MaxUploads
    /\ \E u \in Uploads(ver) :
          /\ original_filename' = u.name
          /\ readable' = u.readable
          /\ df' = u.df
    /\ kind' = "none"
    /\ pc' = "call"
    /\ result' = NoResult
    /\ download_name' = <<>>
    /\ uploaded_on_disk' = TRUE
    /\ processed_on_disk' = (ver = "v1")
    /\ response' = "none"
    /\ UNCHANGED <<cleanup_pending, ver, r, processed_data, served>>

NextRepeat == Next \/ NextUpload

SpecRepeat == InitRepeat /\ [][NextRepeat]_vars

(***************************************************************************)
(* What the claims speak of.                                               *)
(***************************************************************************)
\* A Student-Guardian invocation has returned its output table.
StudentDone == pc = "done" /\ kind = "student" /\ result.tag = "frame"

\* The guardian email cells of the sheet: <<row number, slot>>.
EmailSlots == (1..Len(df.data)) \X (1..2)

EmailCell(rs) == RowGet(df, rs[1], ParentCol(rs[2], "Email"))

\* chars without its surrounding whitespace, by position.
Trimmed(chars) ==
    LET solid == {k \in 1..Len(chars) : chars[k] \notin {" ", "\t"}} IN
    IF solid = {} THEN <<>>
    ELSE SubSeq(chars, CHOOSE k \in solid : \A m \in solid : k <= m,
                       CHOOSE k \in solid : \A m \in solid : k >= m)

\* The cell holds an email: it is not blank.
NonBlank(cell) == cell.t \notin {"nan", "none"} /\ Trimmed(PyStr(cell)) # <<>>

\* Two texts are the same up to letter case.
SameUpToCase(x, y) ==
    Len(x) = Len(y) /\ \A k \in 1..Len(x) : LowerChar(x[k]) = LowerChar(y[k])

\* Two email cells differ at most by letter case and surrounding whitespace.
SameAddress(c1, c2) == SameUpToCase(Trimmed(PyStr(c1)), Trimmed(PyStr(c2)))

\* The lower-cased, trimmed text of an email cell.
Normalized(cell) ==
    LET tr == Trimmed(PyStr(cell)) IN [k \in 1..Len(tr) |-> LowerChar(tr[k])]

OutRows == 1..Len(result.frame.data)

OutCell(rw, col) == RowGet(result.frame, rw, col)

\* C1: no two output rows of a Student-Guardian sheet carry the same Email, and
\* the guardian email cells that differ only by letter case or surrounding
\* whitespace share one output row; the consolidated map never holds a key twice.
C1_UniqueEmail ==
    /\ \A a, b \in 1..Len(processed_data) :
          a # b => processed_data[a].k # processed_data[b].k
    /\ StudentDone =>
          /\ \A a, b \in OutRows : a # b => OutCell(a, "Email") # OutCell(b, "Email")
          /\ \A x \in EmailSlots :
                NonBlank(EmailCell(x)) =>
                   Cardinality({a \in OutRows :
                                  SameAddress(OutCell(a, "Email"), EmailCell(x))}) = 1

\* Two cells spelling one address differently end up in a single output row.
C1_Witness ==
    /\ StudentDone
    /\ Len(result.frame.data) = 1
    /\ \E x, y \in EmailSlots :
          /\ NonBlank(EmailCell(x)) /\ NonBlank(EmailCell(y))
          /\ EmailCell(x) # EmailCell(y)
          /\ SameAddress(EmailCell(x), EmailCell(y))

\* C2: the Email values of the output are exactly the lower-cased, trimmed
\* texts of the non-blank guardian email cells of the sheet.
C2_EmailSet ==
    StudentDone =>
       {OutCell(a, "Email") : a \in OutRows}
          = {Str(Normalized(EmailCell(x))) : x \in {y \in EmailSlots : NonBlank(EmailCell(y))}}

\* A sheet with a blank, a whitespace-only and two differently spelled email cells.
C2_Witness ==
    /\ StudentDone
    /\ \E x \in EmailSlots : EmailCell(x).t = "nan"
    /\ \E x \in EmailSlots : EmailCell(x) = Str(<<" ">>)
    /\ \E x \in EmailSlots : EmailCell(x) = Str(<<"A", " ">>)
    /\ \E x \in EmailSlots : EmailCell(x) = Ch("b")
    /\ Len(result.frame.data) = 2

\* The contacts of the consolidated map, by position.
Contacts == 1..Len(processed_data)

StudentsOf(c) == processed_data[c].v.Students_Info

\* The rows consumed so far by the row loop.
RowsDone == 1..(r - 1)

\* Row rw names the contact with key key in one of its guardian slots.
Names(rw, key) ==
    \E i \in 1..2 : LET cell == RowGet(df, rw, ParentCol(i, "Email")) IN
                       NonBlank(cell) /\ Normalized(cell) = key

\* The ID cell of a row or of a stored student is present.
Present(id) == id.t \notin {"nan", "none"}

StoredId(student) == DictGet(student, "ID Number")

\* The row loop is about to consume row r.
AtRow == pc = "rows" /\ r <= Len(df.data)

\* C3: a contact never holds more than 4 students; a row that meets a contact
\* holding 4 leaves those 4 as they are, and the row loop goes on to the next row.
C3_Capacity ==
    /\ [](\A c \in Contacts : Len(StudentsOf(c)) <= 4)
    /\ [][AtRow =>
            /\ pc' = "rows" /\ r' = r + 1
            /\ \A c \in Contacts :
                  Len(StudentsOf(c)) = 4 =>
                     /\ processed_data'[c].k = processed_data[c].k
                     /\ processed_data'[c].v.Students_Info = StudentsOf(c)]_vars

\* A contact holds 4 students, a consumed row names it with a present ID that
\* none of the 4 carries, and a later row has been consumed as well.
C3_Witness ==
    /\ kind = "student"
    /\ \E c \in Contacts, rw \in RowsDone :
          /\ Len(StudentsOf(c)) = 4
          /\ Names(rw, processed_data[c].k)
          /\ Present(RowGet(df, rw, "ID Number"))
          /\ \A k \in 1..4 : StoredId(StudentsOf(c)[k]) # RowGet(df, rw, "ID Number")
          /\ rw + 1 \in RowsDone

DescFields == <<"First Name", "Last Name", "Grade Level", "Homeroom">>

\* The descriptive fields of a stored student; the v1 revision stores them under
\* the names of the input columns.
StoredDesc(student) ==
    [k \in 1..Len(DescFields) |->
        DictGet(student, IF ver = "v1" THEN "Student " \o DescFields[k] ELSE DescFields[k])]

\* The descriptive cells of a row's student.
RowDesc(rw) ==
    [k \in 1..Len(DescFields) |-> RowGet(df, rw, "Student " \o DescFields[k])]

\* The first consumed row that names key and carries the student ID id.
FirstRowWith(key, id) ==
    CHOOSE rw \in RowsDone :
       /\ Names(rw, key) /\ RowGet(df, rw, "ID Number") = id
       /\ \A other \in RowsDone :
             (Names(other, key) /\ RowGet(df, other, "ID Number") = id) => rw <= other

\* C4: within one contact no two stored students carry the same present ID; a
\* stored student with a present ID has the descriptive fields of the first row
\* that brought that ID to the contact; and unless the contact is full, every ID
\* brought to it is stored exactly once.
C4_Dedup ==
    \A c \in Contacts :
       LET key == processed_data[c].k
           stu == StudentsOf(c)
       IN /\ \A k1, k2 \in 1..Len(stu) :
                (k1 # k2 /\ Present(StoredId(stu[k1]))) => StoredId(stu[k1]) # StoredId(stu[k2])
          /\ \A k \in 1..Len(stu) :
                Present(StoredId(stu[k])) =>
                   StoredDesc(stu[k]) = RowDesc(FirstRowWith(key, StoredId(stu[k])))
          /\ \A rw \in RowsDone :
                (Names(rw, key) /\ Present(RowGet(df, rw, "ID Number")) /\ Len(stu) < 4) =>
                   Cardinality({k \in 1..Len(stu) :
                                  StoredId(stu[k]) = RowGet(df, rw, "ID Number")}) = 1

\* Two consumed rows with different descriptive cells bring the same present ID
\* to a contact that is not full.
C4_Witness ==
    /\ kind = "student"
    /\ \E c \in Contacts, rw1, rw2 \in RowsDone :
          /\ rw1 < rw2
          /\ Names(rw1, processed_data[c].k) /\ Names(rw2, processed_data[c].k)
          /\ Present(RowGet(df, rw1, "ID Number"))
          /\ RowGet(df, rw1, "ID Number") = RowGet(df, rw2, "ID Number")
          /\ RowDesc(rw1) # RowDesc(rw2)
          /\ Len(StudentsOf(c)) < 4

\* The students stored under key in the map data; none when the key is new.
StudentsAt(data, key) ==
    IF \E c \in 1..Len(data) : data[c].k = key
    THEN data[CHOOSE c \in 1..Len(data) : data[c].k = key].v.Students_Info
    ELSE <<>>

\* The keys that row rw names, and in how many of its slots it names key.
KeysOf(rw) ==
    {Normalized(EmailCell(<<rw, i>>)) : i \in {j \in 1..2 : NonBlank(EmailCell(<<rw, j>>))}}

Sightings(rw, key) ==
    Cardinality({i \in 1..2 : NonBlank(EmailCell(<<rw, i>>))
                              /\ Normalized(EmailCell(<<rw, i>>)) = key})

Min(a, b) == IF a <= b THEN a ELSE b

\* C5: a row with a blank student ID is appended to each contact it names, once
\* per slot naming it, as long as the contact holds fewer than 4 students,
\* whatever IDs (blank ones included) the contact already holds.
C5_AbsentIdAppended ==
    [][(AtRow /\ ~Present(RowGet(df, r, "ID Number"))) =>
          \A key \in KeysOf(r) :
             LET old == StudentsAt(processed_data, key)
                 new == StudentsAt(processed_data', key)
             IN /\ Len(new) = Min(4, Len(old) + Sightings(r, key))
                /\ SubSeq(new, 1, Len(old)) = old
                /\ \A k \in (Len(old) + 1)..Len(new) :
                      ~Present(StoredId(new[k])) /\ StoredDesc(new[k]) = RowDesc(r)]_vars

\* A contact holds two students with blank IDs.
C5_Witness ==
    /\ kind = "student"
    /\ \E c \in Contacts : \E k1, k2 \in 1..Len(StudentsOf(c)) :
          /\ k1 # k2
          /\ ~Present(StoredId(StudentsOf(c)[k1]))
          /\ ~Present(StoredId(StudentsOf(c)[k2]))

GuardianAttrs == <<"Firstname", "Lastname", "SMS", "Street Address", "City", "State", "ZIP Code">>

\* The input column of guardian slot i that feeds the output attribute attr.
AttrCol(i, attr) ==
    ParentCol(i, CASE attr = "Firstname" -> "First Name"
                   [] attr = "Lastname" -> "Last Name"
                   [] attr = "SMS" -> "Phone Number"
                   [] OTHER -> attr)

\* A cell without a value: blank (NaN), missing, or the empty string.
Absent(v) == v.t \in {"nan", "none"} \/ (v.t = "str" /\ v.s = <<>>)

\* The attribute record stored under key in the map data.
InfoAt(data, key) == data[CHOOSE c \in 1..Len(data) : data[c].k = key].v.Parent_Info

\* The value recorded for attr in an attribute record; missing when never set.
Recorded(info, attr) ==
    IF \E k \in 1..Len(info) : info[k].k = attr
    THEN info[CHOOSE k \in 1..Len(info) : info[k].k = attr].v
    ELSE None

HasKey(data, key) == \E c \in 1..Len(data) : data[c].k = key

\* The slots of row rw that name key.
SlotsNaming(rw, key) ==
    {i \in 1..2 : NonBlank(EmailCell(<<rw, i>>)) /\ Normalized(EmailCell(<<rw, i>>)) = key}

\* C6: when a row names a contact that is already in the map and has no value
\* for a guardian attribute in any of the slots naming it, the value recorded
\* for that attribute stays as it was.
C6_NonDestructiveMerge ==
    [][AtRow =>
          \A key \in KeysOf(r) : \A a \in 1..Len(GuardianAttrs) :
             (/\ HasKey(processed_data, key)
              /\ \A i \in SlotsNaming(r, key) :
                    Absent(RowGet(df, r, AttrCol(i, GuardianAttrs[a]))))
             => Recorded(InfoAt(processed_data', key), GuardianAttrs[a])
                   = Recorded(InfoAt(processed_data, key), GuardianAttrs[a])]_vars

StudentFields == <<"First Name", "Last Name", "ID Number", "Grade Level", "Homeroom">>

\* The field of a stored student that feeds the output field f.
StoredField(student, f) ==
    DictGet(student, IF ver = "v1" /\ f # "ID Number" THEN "Student " \o f ELSE f)

HasColumn(frame, col) == \E c \in 1..Len(frame.columns) : frame.columns[c] = col

\* C7: in the output row of a contact, student slot k holds the fields of the
\* k-th student stored for the contact, and every slot beyond the stored
\* students is there with nulls in all its fields.
C7_SlotsInOrder ==
    StudentDone =>
       \A a \in OutRows :
          LET stu == StudentsAt(processed_data, PyStr(OutCell(a, "Email"))) IN
          \A k \in 1..4 : \A f \in 1..Len(StudentFields) :
             /\ HasColumn(result.frame, StudentCol(StudentFields[f], k))
             /\ IF k <= Len(stu)
                THEN OutCell(a, StudentCol(StudentFields[f], k))
                        = StoredField(stu[k], StudentFields[f])
                ELSE OutCell(a, StudentCol(StudentFields[f], k)).t \in {"nan", "none"}

\* The output table of the same revision for a sheet of one row with both guardians.
ReferenceFrame ==
    OutputFrame(ver,
       RowStep(ver, <<>>,
               StudentSheet(ver, <<MkRow(Num(1), "1", Ch("K"), MkSlot(Ch("a"), "full", "1"),
                                         MkSlot(Ch("b"), "full", "q"))>>), 1))

\* C8: the output columns and their order are those of any other valid sheet,
\* and every student slot is there as columns (stated for the sheets that yield
\* at least one output row, so that the empty table does not decide it).
C8_SameColumns ==
    (StudentDone /\ Len(result.frame.data) >= 1) =>
       /\ result.frame.columns = ReferenceFrame.columns
       /\ \A k \in 1..4 : \A f \in 1..Len(StudentFields) :
             HasColumn(result.frame, StudentCol(StudentFields[f], k))

RECURSIVE ClaimedStudentColumns(_)
ClaimedStudentColumns(i) ==
    IF i > 4 THEN <<>>
    ELSE <<StudentCol("First Name", i), StudentCol("Last Name", i),
           StudentCol("ID Number", i), StudentCol("Grade Level", i),
           StudentCol("Homeroom", i)>> \o ClaimedStudentColumns(i + 1)

ClaimedColumns ==
    <<"Email", "School Name", "Firstname", "Lastname", "SMS", "Is FacultyStaff",
      "Street Address", "City", "State", "ZIP Code">> \o ClaimedStudentColumns(1)

\* C9: the output columns are Email, School Name, Firstname, Lastname, SMS,
\* Is FacultyStaff, Street Address, City, State, ZIP Code, then for i = 1..4 the
\* First Name, Last Name, ID Number, Grade Level and Homeroom of Student i
\* (stated for the sheets that yield at least one output row).
C9_ExactColumns ==
    (StudentDone /\ Len(result.frame.data) >= 1) => result.frame.columns = ClaimedColumns

\* A staff invocation has returned its output table.
StaffDone == pc = "done" /\ kind = "staff" /\ result.tag = "frame"

StaffCopied == <<"Email", "School Name", "Street Address", "City", "State", "ZIP Code">>

\* C10: the staff output has one row per input row, in input order; its
\* Firstname, Lastname and SMS are the row's First Name, Last Name and Phone
\* Number, and the other columns kept are copied.
C10_StaffRowForRow ==
    StaffDone =>
       /\ Len(result.frame.data) = Len(df.data)
       /\ \A rw \in 1..Len(df.data) :
             /\ OutCell(rw, "Firstname") = RowGet(df, rw, "First Name")
             /\ OutCell(rw, "Lastname") = RowGet(df, rw, "Last Name")
             /\ OutCell(rw, "SMS") = RowGet(df, rw, "Phone Number")
             /\ \A c \in 1..Len(StaffCopied) :
                   OutCell(rw, StaffCopied[c]) = RowGet(df, rw, StaffCopied[c])

\* A staff sheet with two rows sharing an email and a row with a blank email.
C10_Witness ==
    /\ StaffDone
    /\ Len(result.frame.data) = 3
    /\ \E x, y \in 1..Len(df.data) :
          /\ x # y
          /\ NonBlank(RowGet(df, x, "Email"))
          /\ RowGet(df, x, "Email") = RowGet(df, y, "Email")
          /\ RowGet(df, x, "First Name") # RowGet(df, y, "First Name")
    /\ \E z \in 1..Len(df.data) : ~NonBlank(RowGet(df, z, "Email"))

ClaimedStaffColumns ==
    <<"Email", "School Name", "Firstname", "Lastname", "SMS", "Is FacultyStaff",
      "Street Address", "City", "State", "ZIP Code", "ID Number">>

\* C11: the staff output columns are, in order, Email, School Name, Firstname,
\* Lastname, SMS, Is FacultyStaff, Street Address, City, State, ZIP Code, ID
\* Number; every output row has Is FacultyStaff true and the ID Number of its
\* input row (stated for the sheets with at least one row).
C11_StaffSchema ==
    (StaffDone /\ Len(df.data) >= 1) =>
       /\ result.frame.columns = ClaimedStaffColumns
       /\ Len(result.frame.data) = Len(df.data)
       /\ \A rw \in 1..Len(df.data) :
             /\ OutCell(rw, "Is FacultyStaff") = Bool(TRUE)
             /\ OutCell(rw, "ID Number") = RowGet(df, rw, "ID Number")

\* name without its .xlsx or .xls extension.
Stem(name) ==
    IF Len(name) >= 5 /\ SubSeq(name, Len(name) - 4, Len(name)) = <<".", "x", "l", "s", "x">>
    THEN SubSeq(name, 1, Len(name) - 5)
    ELSE IF Len(name) >= 4 /\ SubSeq(name, Len(name) - 3, Len(name)) = <<".", "x", "l", "s">>
    THEN SubSeq(name, 1, Len(name) - 4)
    ELSE name

\* The last characters of chars are those of tail.
HasTail(chars, tail) ==
    /\ Len(tail) <= Len(chars)
    /\ \A k \in 1..Len(tail) : chars[Len(chars) - Len(tail) + k] = tail[k]

StudentName == HasTail(Stem(original_filename), StudentParentSuffix)

StaffName == HasTail(Stem(original_filename), FacultyStaffSuffix)

\* The failure kinds, told by their messages.
UnrecognizedSchema == result.tag = "error" /\ result.message = InvalidFileName

UnreadableInput == result.tag = "error" /\ result.message = CouldNotRead

MissingColumns ==
    /\ result.tag = "error"
    /\ result.message \in {"Column mismatch in Student-Parent file.",
                           "Column mismatch in Faculty-Staff file."}

\* process_spreadsheet has decided on a file it could decode.
Routed == ver = "v2" /\ readable /\ pc # "call"

\* C12: process_spreadsheet sends a file whose name, without its extension,
\* ends with '- StudentParent Information' to the Student-Guardian processing
\* and one ending with '- FacultyStaff Information' to the staff processing;
\* for any other name it returns the UnrecognizedSchema failure, whose details
\* quote the file name, and no processing function has run.
C12_Router ==
    Routed =>
       /\ StudentName => kind = "student"
       /\ StaffName => kind = "staff"
       /\ (~StudentName /\ ~StaffName) =>
             /\ kind = "none"
             /\ pc \in {"done", "responded"}
             /\ UnrecognizedSchema
             /\ result.details = <<"Your filename: '" \o Text(original_filename) \o "'">>
             /\ processed_data = <<>>

\* 'Lincoln.xlsx', holding a well-formed Student-Guardian sheet, is refused.
C12_Witness ==
    /\ Routed
    /\ original_filename = OtherFile
    /\ UnrecognizedSchema
    /\ df.columns = expected_cols_v2

\* The columns the chosen schema requires.
Required == IF kind = "student" THEN expected_cols(ver) ELSE staff_expected_cols

\* The required columns the sheet lacks, in the order of the required list.
Lacking == SelectSeq(Required, LAMBDA c : \A j \in 1..Len(df.columns) : df.columns[j] # c)

\* The column validation of the chosen schema is over.
Validated == kind # "none" /\ pc \in {"rows", "done"}

\* The failure that reports the columns missing and the columns of the sheet.
ReportsColumns(missing, available) ==
    /\ result.tag = "error"
    /\ IF ver = "v2"
       THEN /\ MissingColumns
            /\ result.details =
                  <<"Missing columns:">> \o missing \o <<"---", "Available columns:">>
                     \o available
       ELSE result.message = "Missing columns: " \o Join(", ", missing) \o ". Available: "
                                \o Join(", ", available)

\* C13: for either schema, when the sheet lacks required columns the result is
\* the MissingColumns failure that carries exactly those columns, in the order
\* of the required list, and all the columns of the sheet, and no output table
\* is produced; when it lacks none the validation passes; the sheet is never
\* changed.
C13_ColumnValidation ==
    /\ [](Validated =>
             IF Lacking # <<>>
             THEN /\ pc = "done"
                  /\ ReportsColumns(Lacking, df.columns)
                  /\ result.frame = EmptyFrame
                  /\ processed_data = <<>>
             ELSE result.tag # "error")
    /\ [][df' = df]_vars

\* A Student-Guardian sheet that lacks three columns; a staff sheet with its
\* columns in reverse order that lacks two.
C13_Witness ==
    /\ Validated
    /\ \/ kind = "student" /\ Len(Lacking) = 3
       \/ kind = "staff" /\ Lacking = <<"ID Number", "City">>
    /\ MissingColumns

\* The words normalize_boolean is to take for true and for false.
Affirmative == {<<"t", "r", "u", "e">>, <<"y", "e", "s">>, <<"1">>, <<"t">>, <<"o", "n">>}

Negative == {<<"f", "a", "l", "s", "e">>, <<"n", "o">>, <<"0">>, <<"f">>, <<"o", "f", "f">>}

\* The tri-state value of a cell: "true", "false" or "unknown".
TriState(cell) ==
    CASE cell.t = "bool" -> IF cell.n = 1 THEN "true" ELSE "false"
      [] cell.t = "num" ->
            IF cell.n = 1 THEN "true" ELSE IF cell.n = 0 THEN "false" ELSE "unknown"
      [] cell.t = "str" ->
            IF Normalized(cell) \in Affirmative THEN "true"
            ELSE IF Normalized(cell) \in Negative THEN "false"
            ELSE "unknown"
      [] OTHER -> "unknown"

\* What a Python value says as a tri-state: True, False, None; "other" for the rest.
AsTriState(v) ==
    CASE v.t = "bool" -> IF v.n = 1 THEN "true" ELSE "false"
      [] v.t = "none" -> "unknown"
      [] OTHER -> "other"

FlagCell(rw) == RowGet(df, rw, ParentCol(1, "Is FacultyStaff"))

\* "app v1.py" has returned the output of a sheet with flag cells.
FlagsDone == StudentDone /\ ver = "v1" /\ Len(result.frame.data) = Len(df.data)

\* C14: normalize_boolean gives True, False or None for every cell: a boolean
\* is kept; the number 1 is True, 0 is False, any other number and NaN are
\* None; a text, lower-cased and trimmed, is True when it is one of true, yes,
\* 1, t, on, False when it is one of false, no, 0, f, off, and None otherwise;
\* a missing value is None.  Every guardian of the sheet has an email of their
\* own, so that output row rw carries the normalized flag of sheet row rw.
C14_NormalizeBoolean ==
    FlagsDone =>
       \A rw \in 1..Len(df.data) :
          AsTriState(OutCell(rw, "Is FacultyStaff")) = TriState(FlagCell(rw))

\* A sheet with a padded upper-case 'TRUE' and a number that is neither 0 nor 1.
C14_Witness ==
    /\ FlagsDone
    /\ Len(df.data) = 2
    /\ FlagCell(1) = Str(<<" ", "T", "R", "U", "E", " ">>)
    /\ FlagCell(2) = Num(2)
    /\ OutCell(1, "Is FacultyStaff") = Bool(TRUE)
    /\ OutCell(2, "Is FacultyStaff") = None

\* upload_excel has sent the output of a successful processing.
Sent == pc = "responded" /\ result.tag = "frame" /\ response = "file"

\* chars without its last n characters.
DropTail(chars, n) == SubSeq(chars, 1, Len(chars) - n)

\* '<Base> - <marker>.xlsx'
Branded(base) ==
    base \o <<" ", "-", " ", "B", "r", "e", "v", "o", " ", "C", "o", "n", "t", "a", "c", "t", "s",
              ".", "x", "l", "s", "x">>

\* The name is '<Base> - StudentParent Information.<ext>'.
StudentForm == HasTail(Stem(original_filename), <<" ">> \o StudentParentSuffix)

\* The name is '<Base> - FacultyStaff Information.<ext>'.
StaffForm == HasTail(Stem(original_filename), <<" ">> \o FacultyStaffSuffix)

\* C15: the download name of '<Base> - StudentParent Information.<ext>' and of
\* '<Base> - FacultyStaff Information.<ext>' is '<Base> - Brevo Contacts.xlsx'
\* with <Base> unchanged; the download name of a file without a recognized
\* suffix is its name without the extension, followed by
\* ' - Brevo Contacts.xlsx'.
C15_DownloadName ==
    Sent =>
       /\ StudentForm =>
             download_name =
                Branded(DropTail(Stem(original_filename), Len(StudentParentSuffix) + 1))
       /\ StaffForm =>
             download_name =
                Branded(DropTail(Stem(original_filename), Len(FacultyStaffSuffix) + 1))
       /\ (~StudentName /\ ~StaffName) => download_name = Branded(Stem(original_filename))

\* process_spreadsheet has returned.
Returned == ver = "v2" /\ pc \in {"done", "responded"}

\* The three causes of failure.
FailureCause ==
    \/ ~readable
    \/ ~StudentName /\ ~StaffName
    \/ kind # "none" /\ Lacking # <<>>

\* C16: process_spreadsheet returns either success with an output table or
\* failure with a message and a list of details, never anything else; a file
\* that cannot be decoded, a name without a schema suffix and missing columns
\* each give the failure; a failure carries no output table and no row has
\* been consolidated.
C16_StructuredOutcome ==
    Returned =>
       /\ result.tag \in {"frame", "error"}
       /\ result.tag = "error" <=> FailureCause
       /\ result.tag = "frame" => result.message = "" /\ result.details = <<>>
       /\ result.tag = "error" =>
             /\ result.message # ""
             /\ result.details # <<>>
             /\ result.frame = EmptyFrame
             /\ processed_data = <<>>

\* The three failures, the one for missing columns on a sheet that has a row.
C16_Witness ==
    /\ Returned
    /\ result.tag = "error"
    /\ readable
    /\ kind = "student"
    /\ Len(df.data) = 1
    /\ Len(Lacking) = 1

\* The keys of the consolidated map data.
KeySet(data) == {data[c].k : c \in 1..Len(data)}

\* The student ID of sheet row rw stands in some student slot of the output.
InOutput(rw) ==
    \E a \in OutRows : \E k \in 1..4 :
       /\ HasColumn(result.frame, StudentCol("ID Number", k))
       /\ OutCell(a, StudentCol("ID Number", k)) = RowGet(df, rw, "ID Number")

\* C17: a guardian slot whose email cell is blank, empty or whitespace only
\* creates no contact and changes none: a row adds to the map only the keys of
\* its non-blank email cells and leaves every contact it does not name as it
\* is; a row whose two email cells are blank leaves the map unchanged, and its
\* student is in no output row.
C17_BlankSlotSkipped ==
    /\ [][AtRow =>
            /\ KeySet(processed_data') = KeySet(processed_data) \cup KeysOf(r)
            /\ \A c \in Contacts :
                  processed_data[c].k \notin KeysOf(r) => processed_data'[c] = processed_data[c]
            /\ KeysOf(r) = {} => processed_data' = processed_data]_vars
    /\ [](StudentDone => \A rw \in 1..Len(df.data) : KeysOf(rw) = {} => ~InOutput(rw))

\* A row with a whitespace-only and an empty email cell, after a row with a guardian.
C17_Witness ==
    /\ StudentDone
    /\ Len(df.data) = 2
    /\ NonBlank(EmailCell(<<1, 1>>))
    /\ EmailCell(<<2, 1>>) = Str(<<" ">>)
    /\ EmailCell(<<2, 2>>) = Str(<<>>)
    /\ Len(result.frame.data) = 1

\* Where the scan of the sheet, rows top to bottom and slot 1 before slot 2,
\* first meets the key: 2 * row + slot.
FirstSeen(key) ==
    LET at == {2 * x[1] + x[2] : x \in {y \in EmailSlots : NonBlank(EmailCell(y))
                                                            /\ Normalized(EmailCell(y)) = key}}
    IN CHOOSE p \in at : \A q \in at : p <= q

\* C18: the output rows stand in the order in which their emails are first
\* seen, scanning the rows top to bottom and slot 1 before slot 2; a later
\* sighting of a contact does not move it.
C18_InsertionOrder ==
    /\ [](StudentDone =>
             \A a, b \in OutRows :
                a < b => FirstSeen(OutCell(a, "Email").s) < FirstSeen(OutCell(b, "Email").s))
    /\ [][AtRow =>
            \A c \in Contacts : processed_data'[c].k = processed_data[c].k]_vars

\* The contact first seen in row 1 is seen again in row 2, after a second one.
C18_Witness ==
    /\ StudentDone
    /\ Len(df.data) = 2
    /\ Len(result.frame.data) = 2
    /\ Names(1, OutCell(1, "Email").s)
    /\ Names(1, OutCell(2, "Email").s)
    /\ Names(2, OutCell(1, "Email").s)
    /\ ~Names(2, OutCell(2, "Email").s)

\* The consolidated map of the first n rows of a sheet, built from the empty map.
RECURSIVE FromEmpty(_, _, _)
FromEmpty(v, frame, n) ==
    IF n = 0 THEN <<>> ELSE RowStep(v, FromEmpty(v, frame, n - 1), frame, n)

\* C19: whatever uploads were answered before, the row loop of an invocation
\* starts on the empty map, the map it holds after n rows is the one built
\* from the empty map, and the output is the one the sheet gives when it is
\* processed first.
C19_Stateless ==
    /\ (pc = "rows" /\ r = 1) => processed_data = <<>>
    /\ pc = "rows" => processed_data = FromEmpty(ver, df, r - 1)
    /\ StudentDone => result.frame = OutputFrame(ver, FromEmpty(ver, df, Len(df.data)))

\* A second upload that names a guardian has been processed.
C19_Witness ==
    /\ StudentDone
    /\ served >= 1
    /\ Len(df.data) = 2
    /\ Len(result.frame.data) >= 1

\* C20: for a file whose name has neither schema suffix, process_spreadsheet
\* returns the UnrecognizedSchema failure whatever the file holds, a file
\* that cannot be decoded and a sheet that lacks required columns included.
C20_RoutingFirst ==
    (Returned /\ ~StudentName /\ ~StaffName) => UnrecognizedSchema

\* The last slot of row rw that names key.
LastSlotNaming(rw, key) ==
    CHOOSE i \in SlotsNaming(rw, key) : \A j \in SlotsNaming(rw, key) : j <= i

\* C21: when a row names a contact that is already in the map and the last of
\* its slots naming it has a present, non-empty value for a guardian attribute
\* (the number 0 included), that value is the one recorded afterwards.
C21_PresentOverwrites ==
    [][AtRow =>
          \A key \in KeysOf(r) : \A a \in 1..Len(GuardianAttrs) :
             LET v == RowGet(df, r, AttrCol(LastSlotNaming(r, key), GuardianAttrs[a])) IN
             (HasKey(processed_data, key) /\ ~Absent(v))
             => Recorded(InfoAt(processed_data', key), GuardianAttrs[a]) = v]_vars

\* The first row of the sheet that names key.
FirstRowNaming(key) ==
    CHOOSE rw \in 1..Len(df.data) :
       Names(rw, key) /\ \A x \in 1..Len(df.data) : Names(x, key) => rw <= x

\* C22: the school name of a contact is that of the row in which its key is
\* first seen; no later row changes it, and the output carries it.
C22_SchoolNameFixed ==
    /\ [][AtRow =>
            /\ \A c \in Contacts :
                  processed_data'[c].v.School_Name = processed_data[c].v.School_Name
            /\ \A c \in (Len(processed_data) + 1)..Len(processed_data') :
                  processed_data'[c].v.School_Name = RowGet(df, r, "School Name")]_vars
    /\ [](StudentDone =>
             \A a \in OutRows :
                OutCell(a, "School Name")
                   = RowGet(df, FirstRowNaming(OutCell(a, "Email").s), "School Name"))

\* A contact first seen in a row without a school name and again in a row with one.
C22_Witness ==
    /\ StudentDone
    /\ Len(df.data) = 2
    /\ Len(result.frame.data) = 1
    /\ Names(1, OutCell(1, "Email").s)
    /\ Names(2, OutCell(1, "Email").s)
    /\ RowGet(df, 1, "School Name") = NaN
    /\ RowGet(df, 2, "School Name") # NaN
    /\ OutCell(1, "School Name") = NaN

\* The consolidated map of a Student-Guardian sheet is being built or is built.
Consolidating == kind = "student" /\ pc \in {"rows", "done", "responded"}

\* The student stored is the student of a consumed row that names key.
StudentFrom(student, key) ==
    \E rw \in RowsDone :
       /\ Names(rw, key)
       /\ StoredId(student) = RowGet(df, rw, "ID Number")
       /\ StoredDesc(student) = RowDesc(rw)

\* The value recorded for a guardian attribute is that of a slot naming key.
AttributeFrom(attr, value, key) ==
    \E rw \in RowsDone : \E i \in SlotsNaming(rw, key) : value = RowGet(df, rw, AttrCol(i, attr))

\* C23: every student stored under a contact is the student of a row that
\* names the contact in one of its two email cells, every guardian attribute
\* recorded for a contact is the value of a slot whose email is the contact's,
\* and a row leaves every contact it does not name as it is.
C23_NoCrossContamination ==
    /\ [](Consolidating =>
             \A c \in Contacts :
                /\ \A k \in 1..Len(StudentsOf(c)) :
                      StudentFrom(StudentsOf(c)[k], processed_data[c].k)
                /\ \A a \in 1..Len(GuardianAttrs) :
                      LET info == processed_data[c].v.Parent_Info IN
                      (\E k \in 1..Len(info) : info[k].k = GuardianAttrs[a])
                      => AttributeFrom(GuardianAttrs[a], Recorded(info, GuardianAttrs[a]),
                                       processed_data[c].k))
    /\ [][AtRow =>
            \A c \in Contacts :
               ~Names(r, processed_data[c].k) => processed_data'[c] = processed_data[c]]_vars

\* A row whose two email cells name two contacts, after a row that names one of them.
C23_Witness ==
    /\ Consolidating
    /\ pc = "done"
    /\ Len(df.data) = 2
    /\ Len(processed_data) = 2
    /\ KeysOf(1) = {<<"b">>}
    /\ KeysOf(2) = {<<"a">>}
    /\ Len(StudentsOf(1)) = 1
    /\ Len(StudentsOf(2)) = 1

\* Both guardian slots of row rw carry the same email after normalization.
SameInBoth(rw) ==
    /\ NonBlank(EmailCell(<<rw, 1>>))
    /\ NonBlank(EmailCell(<<rw, 2>>))
    /\ Normalized(EmailCell(<<rw, 1>>)) = Normalized(EmailCell(<<rw, 2>>))

\* C24: a row adds at most one student to any one contact; when both guardian
\* slots of the row carry the same email, the map gains at most one contact,
\* every attribute present in slot 2 is the one recorded after the row, and
\* the contact holds one student more at most.
C24_OneStudentPerRow ==
    [][AtRow =>
          /\ \A key \in KeysOf(r) :
                Len(StudentsAt(processed_data', key))
                   <= Len(StudentsAt(processed_data, key)) + 1
          /\ SameInBoth(r) =>
                /\ Len(processed_data') <= Len(processed_data) + 1
                /\ \A a \in 1..Len(GuardianAttrs) :
                      LET v == RowGet(df, r, AttrCol(2, GuardianAttrs[a])) IN
                      ~Absent(v)
                      => Recorded(InfoAt(processed_data', Normalized(EmailCell(<<r, 1>>))),
                                  GuardianAttrs[a]) = v]_vars

\* The request is over: upload_excel has answered and no callback is left to run.
RequestOver == pc = "responded" /\ ~cleanup_pending

\* C25: in "app v2.py", once a request is over, whether it sent the file,
\* answered a processing failure or caught an exception, neither its uploaded
\* temp file nor its processed temp file is on disk; and the processed file of
\* a request that sends it is removed only once the response has been built.
C25_TempFilesRemoved ==
    /\ []((ver = "v2" /\ RequestOver) => (~uploaded_on_disk /\ ~processed_on_disk))
    /\ []((ver = "v2" /\ pc = "responded" /\ response = "file" /\ cleanup_pending)
             => processed_on_disk)
    /\ [][(ver = "v2" /\ processed_on_disk /\ ~processed_on_disk' /\ response' = "file")
             => (pc = "responded" /\ response = "file")]_vars

====
